---- MODULE Spec2Model ----
(***************************************************************************)
(* FolderClone (src/folderclone/core.py): one-way directory               *)
(* synchronisation.  sync_directories(src, dst, dry_run) validates the two *)
(* paths and runs _sync_recursive, which lists one directory level with   *)
(* filecmp.dircmp, copies the left-only entries, updates the common files  *)
(* whose contents differ (_files_are_equal), removes the right-only        *)
(* entries and then recurses into the common directories.                  *)
(*                                                                         *)
(* Two specifications:                                                     *)
(*   Spec    the filesystem (a source tree and a destination tree), the    *)
(*           call stack of _sync_recursive and the emitted action lines,   *)
(*           over a session of up to MaxRuns invocations;                  *)
(*   SpecEq  the chunked comparison loop of _files_are_equal, one read     *)
(*           per step (SpecEqFair adds the fairness of a running loop).    *)
(***************************************************************************)
EXTENDS Integers, Sequences, FiniteSets, TLC

(***************************************************************************)
(* Bounds of the model.                                                    *)
(***************************************************************************)
\* entries (files and directories) in the two trees together
MaxEntries == 4
\* nesting depth of an entry below the synchronised roots
MaxDepth == 2
\* invocations of sync_directories in one session
MaxRuns == 2
\* longest compared file of SpecEq, in chunks (plus one byte)
MaxChunks == 2

\* entry names; ".git" is one of dircmp's DEFAULT_IGNORES
Names == {".git", "a", "b"}
\* the names in the order list.sort() gives them
NameOrder == <<".git", "a", "b">>
\* file contents used in the trees: two files of the same size
FileData == {<<0>>, <<1>>}

\* filecmp.DEFAULT_IGNORES, the ignore list dircmp(a, b) uses by default
DEFAULT_IGNORES ==
    {"RCS", "CVS", "tags", ".git", ".hg", ".bzr", "_darcs", "__pycache__"}

\* chunk_size of _files_are_equal
chunk_size == 8192

VARIABLES
    srcKind,    \* what the resolved source path is: "dir", "file", "missing"
    dstKind,    \* what the resolved destination path is
    src,        \* source tree: relative path -> [isdir, data]
    dst,        \* destination tree
    status,     \* "setup", "running", "done", "failed", "invalid"
    dry,        \* dry_run of the current invocation
    stack,      \* frames of _sync_recursive, innermost first
    log,        \* action lines printed by the current invocation
    err,        \* path named by the ValueError: "none", "source", "destination"
    failedAt,   \* <<path>> of the entry whose operation raised, or << >>
    src0,       \* source tree when the current invocation started
    dst0,       \* destination tree when the current invocation started
    prev,       \* summary of the previous invocation
    nruns,      \* invocations started so far
    f1, f2,     \* SpecEq: the two files (byte sequences)
    pos1, pos2, \* SpecEq: read offsets of the two open files
    eqpc,       \* SpecEq: "idle", "stat", "loop", "done"
    eqres       \* SpecEq: return value of _files_are_equal

treeVars == <<srcKind, dstKind, src, dst, status, dry, stack, log, err,
              failedAt, src0, dst0, prev, nruns>>
eqVars == <<f1, f2, pos1, pos2, eqpc, eqres>>
vars == <<srcKind, dstKind, src, dst, status, dry, stack, log, err,
          failedAt, src0, dst0, prev, nruns, f1, f2, pos1, pos2, eqpc, eqres>>

(***************************************************************************)
(* Byte sequences and _files_are_equal.                                    *)
(***************************************************************************)
Min(a, b) == IF a < b THEN a ELSE b

\* f.read(n) at offset pos: at most n bytes, empty at end of file
Read(f, pos, n) == SubSeq(f, pos + 1, Min(pos + n, Len(f)))

\* file1.stat().st_size != file2.stat().st_size
SizeDiffers(b1, b2) == Len(b1) # Len(b2)

\* fault variant of ChunkDiffers: only the lengths of the chunks are compared
ChunkDiffersByLength(b1, b2) == Len(b1) # Len(b2)

\* b1 != b2 on two chunks
ChunkDiffers(b1, b2) == b1 # b2

RECURSIVE CompareLoop(_, _, _, _)
\* the while True loop of _files_are_equal from offsets p1, p2
CompareLoop(a, b, p1, p2) ==
    LET b1 == Read(a, p1, chunk_size)
        b2 == Read(b, p2, chunk_size)
    IN  IF ChunkDiffers(b1, b2) THEN FALSE
        ELSE IF b1 = << >> THEN TRUE
        ELSE CompareLoop(a, b, p1 + Len(b1), p2 + Len(b2))

_files_are_equal(a, b) ==
    IF SizeDiffers(a, b) THEN FALSE ELSE CompareLoop(a, b, 0, 0)

(***************************************************************************)
(* Trees: a function from the relative paths present to their nodes.       *)
(***************************************************************************)
EmptyTree == [q \in {} |-> [isdir |-> TRUE, data |-> << >>]]
DirNode == [isdir |-> TRUE, data |-> << >>]
FileNode(d) == [isdir |-> FALSE, data |-> d]
Nodes == {DirNode} \cup {FileNode(d) : d \in FileData}

\* Path.is_dir()
IsDir(t, p) == p \in DOMAIN t /\ t[p].isdir

IsPrefix(p, q) == Len(p) <= Len(q) /\ SubSeq(q, 1, Len(p)) = p
Parent(p) == SubSeq(p, 1, Len(p) - 1)

\* os.listdir(p)
ListDir(t, p) == {n \in Names : Append(p, n) \in DOMAIN t}

\* the paths of the subtree rooted at p
Subtree(t, p) == {q \in DOMAIN t : IsPrefix(p, q)}

\* a list of the names of S, sorted
SortedSeq(S) == SelectSeq(NameOrder, LAMBDA n : n \in S)

\* filecmp._filter(os.listdir(d), hide + ignore), sorted
FilteredList(t, p) == ListDir(t, p) \ DEFAULT_IGNORES

\* dircmp(left, right) with phase0, phase1 and phase2 run on the level p:
\* the sorted, filtered listings, the names on one side only, and the
\* common names split by type (a type mismatch is common_funny).
\* dircmp computes its attributes on first access: phase0 and phase1 when
\* line 31 reads left_only, phase2 when line 48 reads common_files.  The
\* left_only loop in between touches only names that are not common, so
\* the result is the one computed on entry to the level.
Dircmp(s, d, p) ==
    LET left_list == FilteredList(s, p)
        right_list == FilteredList(d, p)
        common == left_list \cap right_list
        sameType(n) == s[Append(p, n)].isdir = d[Append(p, n)].isdir
    IN  [ left_only |-> SortedSeq(left_list \ right_list),
          right_only |-> SortedSeq(right_list \ left_list),
          common_dirs |->
              SortedSeq({n \in common : sameType(n) /\ s[Append(p, n)].isdir}),
          common_files |->
              SortedSeq({n \in common : sameType(n) /\ ~s[Append(p, n)].isdir}),
          common_funny |-> SortedSeq({n \in common : ~sameType(n)}) ]

\* shutil.copytree(src_file, dst_file): the whole subtree, ignored names too
copytree(s, d, p) ==
    [q \in DOMAIN d \cup Subtree(s, p) |->
        IF q \in Subtree(s, p) THEN s[q] ELSE d[q]]

\* fault variant of copy2: an existing destination file is left as it is
copy2_no_overwrite(s, d, p) ==
    IF p \in DOMAIN d THEN d
    ELSE [q \in DOMAIN d \cup {p} |-> IF q = p THEN s[p] ELSE d[q]]

\* shutil.copy2(src_file, dst_file): creates or overwrites one file
copy2(s, d, p) ==
    [q \in DOMAIN d \cup {p} |-> IF q = p THEN s[p] ELSE d[q]]

\* shutil.rmtree(dst_file)
rmtree(d, p) == [q \in DOMAIN d \ Subtree(d, p) |-> d[q]]

\* dst_file.unlink()
unlink(d, p) == [q \in DOMAIN d \ {p} |-> d[q]]

\* lines 34-45: what one left_only entry does to the destination
CopyEffect(s, d, p, isdry) ==
    IF IsDir(s, p)
    THEN IF isdry THEN d ELSE copytree(s, d, p)
    ELSE IF isdry THEN d ELSE copy2(s, d, p)

\* lines 51-56: what one common file does to the destination
UpdateEffect(s, d, p, isdry) ==
    IF ~_files_are_equal(s[p].data, d[p].data)
    THEN IF isdry THEN d ELSE copy2(s, d, p)
    ELSE d

\* fault variant of RemoveEffect: the file branch forgets to test dry_run
RemoveEffectIgnoresDry(d, p, isdry) ==
    IF IsDir(d, p)
    THEN IF isdry THEN d ELSE rmtree(d, p)
    ELSE unlink(d, p)

\* lines 61-72: what one right_only entry does to the destination
RemoveEffect(d, p, isdry) ==
    IF IsDir(d, p)
    THEN IF isdry THEN d ELSE rmtree(d, p)
    ELSE IF isdry THEN d ELSE unlink(d, p)

\* fault variant of Line: the dry-run messages all say "file"
LineDryAlwaysFile(kind, isdir, p, isdry) ==
    [ kind |-> kind,
      label |-> IF isdir /\ ~isdry THEN "directory" ELSE "file",
      path |-> p,
      would |-> isdry ]

\* one printed action line: "Would copy directory ..", "Copied file ..",
\* "Would update ..", "Removed directory .." and so on
Line(kind, isdir, p, isdry) ==
    [ kind |-> kind,
      label |-> IF isdir THEN "directory" ELSE "file",
      path |-> p,
      would |-> isdry ]

\* a frame of _sync_recursive: the level and the entries still to process
NewFrame(s, d, p) ==
    LET c == Dircmp(s, d, p)
    IN  [ path |-> p,
          left_only |-> c.left_only,
          common_files |-> c.common_files,
          right_only |-> c.right_only,
          common_dirs |-> c.common_dirs ]

\* fault variant of Phase: the common directories are entered before the
\* right_only entries are removed
PhaseDescendFirst(f) ==
    IF f.left_only # << >> THEN "left_only"
    ELSE IF f.common_files # << >> THEN "common_files"
    ELSE IF f.common_dirs # << >> THEN "common_dirs"
    ELSE IF f.right_only # << >> THEN "right_only"
    ELSE "return"

\* the loop of _sync_recursive the frame is in
Phase(f) ==
    IF f.left_only # << >> THEN "left_only"
    ELSE IF f.common_files # << >> THEN "common_files"
    ELSE IF f.right_only # << >> THEN "right_only"
    ELSE IF f.common_dirs # << >> THEN "common_dirs"
    ELSE "return"

RECURSIVE Unwind(_)
\* a frame with nothing left to do returns to its caller, lines 75-76
Unwind(st) ==
    IF st # << >> /\ Phase(st[1]) = "return" THEN Unwind(Tail(st)) ELSE st

\* fault variant of Validate: the destination is not checked
ValidateSourceOnly(sk, dk) ==
    IF sk # "dir" THEN "source" ELSE "none"

\* lines 19-22: the path the ValueError names, "none" when both are directories
Validate(sk, dk) ==
    IF sk # "dir" THEN "source"
    ELSE IF dk # "dir" THEN "destination"
    ELSE "none"

(***************************************************************************)
(* Spec: the session.                                                      *)
(***************************************************************************)
Kinds == {"dir", "file", "missing"}
NoRun == [dry |-> FALSE, status |-> "none", log |-> << >>, dst0 |-> EmptyTree]
Finished == {"done", "failed", "invalid"}

EqIdle ==
    /\ f1 = << >> /\ f2 = << >> /\ pos1 = 0 /\ pos2 = 0
    /\ eqpc = "idle" /\ eqres = FALSE

Init ==
    /\ srcKind \in Kinds
    /\ dstKind \in Kinds
    /\ src = EmptyTree
    /\ dst = EmptyTree
    /\ status = "setup"
    /\ dry = FALSE
    /\ stack = << >>
    /\ log = << >>
    /\ err = "none"
    /\ failedAt = << >>
    /\ src0 = EmptyTree
    /\ dst0 = EmptyTree
    /\ prev = NoRun
    /\ nruns = 0
    /\ EqIdle

\* the places a new entry can go in tree t
Slots(t) ==
    LET parents == {<< >>} \cup
                   {r \in DOMAIN t : t[r].isdir /\ Len(r) < MaxDepth}
    IN  {Append(q, n) : q \in parents, n \in Names} \ DOMAIN t

Room == Cardinality(DOMAIN src) + Cardinality(DOMAIN dst) < MaxEntries

\* before the first invocation: the user puts an entry into the source
MkSrc ==
    /\ status = "setup" /\ srcKind = "dir" /\ Room
    /\ \E p \in Slots(src), n \in Nodes :
          src' = [q \in DOMAIN src \cup {p} |-> IF q = p THEN n ELSE src[q]]
    /\ UNCHANGED <<srcKind, dstKind, dst, status, dry, stack, log, err,
                   failedAt, src0, dst0, prev, nruns>>
    /\ UNCHANGED eqVars

\* before the first invocation: the user puts an entry into the destination
MkDst ==
    /\ status = "setup" /\ dstKind = "dir" /\ Room
    /\ \E p \in Slots(dst), n \in Nodes :
          dst' = [q \in DOMAIN dst \cup {p} |-> IF q = p THEN n ELSE dst[q]]
    /\ UNCHANGED <<srcKind, dstKind, src, status, dry, stack, log, err,
                   failedAt, src0, dst0, prev, nruns>>
    /\ UNCHANGED eqVars

\* sync_directories(src, dst, dry_run), lines 16-24 up to the first listing.
\* The trees are left alone between two invocations, and a session stops
\* at the first invocation that raises.
Call ==
    /\ status \in {"setup", "done"}
    /\ nruns < MaxRuns
    /\ \E d \in BOOLEAN : dry' = d
    /\ nruns' = nruns + 1
    /\ prev' = IF status = "setup" THEN NoRun
               ELSE [dry |-> dry, status |-> status, log |-> log, dst0 |-> dst0]
    /\ src0' = src
    /\ dst0' = dst
    /\ log' = << >>
    /\ failedAt' = << >>
    /\ err' = Validate(srcKind, dstKind)
    /\ IF err' # "none"
       THEN status' = "invalid" /\ stack' = << >>
       ELSE /\ stack' = Unwind(<<NewFrame(src, dst, << >>)>>)
            /\ status' = IF stack' = << >> THEN "done" ELSE "running"
    /\ UNCHANGED <<srcKind, dstKind, src, dst>>
    /\ UNCHANGED eqVars

Top == stack[1]
Running(ph) == status = "running" /\ stack # << >> /\ Phase(Top) = ph
\* the frame with the head of one of its lists consumed
Pop(f, fld) == [f EXCEPT ![fld] = Tail(@)]

\* lines 31-45, one iteration
CopyLeftOnly ==
    /\ Running("left_only")
    /\ LET p == Append(Top.path, Head(Top.left_only))
       IN  /\ dst' = CopyEffect(src, dst, p, dry)
           /\ log' = Append(log, Line("copy", IsDir(src, p), p, dry))
    /\ stack' = Unwind(<<Pop(Top, "left_only")>> \o Tail(stack))
    /\ status' = IF stack' = << >> THEN "done" ELSE "running"
    /\ UNCHANGED <<srcKind, dstKind, src, dry, err, failedAt, src0, dst0, prev,
                   nruns>>
    /\ UNCHANGED eqVars

\* lines 48-56, one iteration
CheckCommonFile ==
    /\ Running("common_files")
    /\ LET p == Append(Top.path, Head(Top.common_files))
       IN  /\ dst' = UpdateEffect(src, dst, p, dry)
           /\ log' = IF ~_files_are_equal(src[p].data, dst[p].data)
                     THEN Append(log, Line("update", FALSE, p, dry))
                     ELSE log
    /\ stack' = Unwind(<<Pop(Top, "common_files")>> \o Tail(stack))
    /\ status' = IF stack' = << >> THEN "done" ELSE "running"
    /\ UNCHANGED <<srcKind, dstKind, src, dry, err, failedAt, src0, dst0, prev,
                   nruns>>
    /\ UNCHANGED eqVars

\* lines 59-72, one iteration
RemoveRightOnly ==
    /\ Running("right_only")
    /\ LET p == Append(Top.path, Head(Top.right_only))
       IN  /\ dst' = RemoveEffect(dst, p, dry)
           /\ log' = Append(log, Line("remove", IsDir(dst, p), p, dry))
    /\ stack' = Unwind(<<Pop(Top, "right_only")>> \o Tail(stack))
    /\ status' = IF stack' = << >> THEN "done" ELSE "running"
    /\ UNCHANGED <<srcKind, dstKind, src, dry, err, failedAt, src0, dst0, prev,
                   nruns>>
    /\ UNCHANGED eqVars

\* lines 75-76, one iteration: the recursive call lists the next level
RecurseCommonDir ==
    /\ Running("common_dirs")
    /\ LET p == Append(Top.path, Head(Top.common_dirs))
       IN  stack' = Unwind(<<NewFrame(src, dst, p), Pop(Top, "common_dirs")>>
                           \o Tail(stack))
    /\ status' = IF stack' = << >> THEN "done" ELSE "running"
    /\ UNCHANGED <<srcKind, dstKind, src, dst, dry, log, err, failedAt,
                   src0, dst0, prev, nruns>>
    /\ UNCHANGED eqVars

\* the filesystem call of the next entry raises OSError (the entry vanished,
\* permission denied, I/O error): nothing catches it, so it unwinds every
\* frame and sync_directories ends with the exception.  The failing call
\* is taken to have changed nothing (a copytree or rmtree that stops half
\* way is not modelled).
Raise ==
    /\ status = "running" /\ stack # << >>
    /\ \/ Phase(Top) = "common_files"
       \/ Phase(Top) \in {"left_only", "right_only"} /\ ~dry
    /\ failedAt' = <<Append(Top.path, Head(Top[Phase(Top)]))>>
    /\ status' = "failed"
    /\ stack' = << >>
    /\ UNCHANGED <<srcKind, dstKind, src, dst, dry, log, err, src0, dst0, prev,
                   nruns>>
    /\ UNCHANGED eqVars

Next ==
    \/ MkSrc
    \/ MkDst
    \/ Call
    \/ CopyLeftOnly
    \/ CheckCommonFile
    \/ RemoveRightOnly
    \/ RecurseCommonDir
    \/ Raise

Spec == Init /\ [][Next]_vars

(***************************************************************************)
(* SpecEq: _files_are_equal on its own, one statement per step.            *)
(***************************************************************************)
\* a file of n zero bytes, with a one at offset k (k = 0: all zero)
MkFile(n, k) == [i \in 1..n |-> IF i = k THEN 1 ELSE 0]

\* sizes below, at and above the multiples of chunk_size, and 0 and 1
EqLengths ==
    {0, 1} \cup {k * chunk_size + e : k \in 1..MaxChunks, e \in {-1, 0, 1}}

\* where the marked byte goes: first, last, and around the first chunk edge
EqMarks(n) == {0} \cup ({1, n, chunk_size, chunk_size + 1} \cap (1..n))

EqFiles == UNION {{MkFile(n, k) : k \in EqMarks(n)} : n \in EqLengths}

TreeIdle ==
    /\ srcKind = "dir" /\ dstKind = "dir"
    /\ src = EmptyTree /\ dst = EmptyTree
    /\ status = "setup" /\ dry = FALSE /\ stack = << >> /\ log = << >>
    /\ err = "none" /\ failedAt = << >>
    /\ src0 = EmptyTree /\ dst0 = EmptyTree /\ prev = NoRun /\ nruns = 0

InitEq ==
    /\ TreeIdle
    /\ f1 \in EqFiles
    /\ f2 \in EqFiles
    /\ pos1 = 0
    /\ pos2 = 0
    /\ eqpc = "stat"
    /\ eqres = FALSE

\* lines 81-82: the size check
EqStat ==
    /\ eqpc = "stat"
    /\ IF SizeDiffers(f1, f2)
       THEN eqpc' = "done" /\ eqres' = FALSE
       ELSE eqpc' = "loop" /\ eqres' = eqres
    /\ UNCHANGED <<f1, f2, pos1, pos2>>
    /\ UNCHANGED treeVars

\* lines 86-93: one iteration of the while True loop
EqRead ==
    /\ eqpc = "loop"
    /\ LET b1 == Read(f1, pos1, chunk_size)
           b2 == Read(f2, pos2, chunk_size)
       IN  /\ pos1' = pos1 + Len(b1)
           /\ pos2' = pos2 + Len(b2)
           /\ IF ChunkDiffers(b1, b2)
              THEN eqpc' = "done" /\ eqres' = FALSE
              ELSE IF b1 = << >>
                   THEN eqpc' = "done" /\ eqres' = TRUE
                   ELSE eqpc' = "loop" /\ eqres' = eqres
    /\ UNCHANGED <<f1, f2>>
    /\ UNCHANGED treeVars

NextEq ==
    \/ EqStat
    \/ EqRead

SpecEq == InitEq /\ [][NextEq]_vars

\* a call that has started keeps executing
SpecEqFair == InitEq /\ [][NextEq]_vars /\ WF_vars(NextEq)

(***************************************************************************)
(* Vocabulary of the properties.                                           *)
(***************************************************************************)
Range(s) == {s[i] : i \in 1..Len(s)}

\* an action line without its tense: kind, file-or-directory label, path
Class(l) == [kind |-> l.kind, label |-> l.label, path |-> l.path]
Classes(lg) == [i \in 1..Len(lg) |-> Class(lg[i])]
ClassSet(lg) == {Class(lg[i]) : i \in 1..Len(lg)}

RECURSIVE PlanSet(_, _, _)
\* the actions _sync_recursive(s/p, d/p) goes through when nothing raises
PlanSet(s, d, p) ==
    LET c == Dircmp(s, d, p)
        at(n) == Append(p, n)
    IN  {Class(Line("copy", IsDir(s, at(n)), at(n), FALSE)) :
             n \in Range(c.left_only)}
        \cup {Class(Line("update", FALSE, at(n), FALSE)) :
                 n \in {m \in Range(c.common_files) :
                           ~_files_are_equal(s[at(m)].data, d[at(m)].data)}}
        \cup {Class(Line("remove", IsDir(d, at(n)), at(n), FALSE)) :
                 n \in Range(c.right_only)}
        \cup UNION {PlanSet(s, d, at(n)) : n \in Range(c.common_dirs)}

\* a compared directory level: the roots, and every directory present on
\* both sides below a compared level
RECURSIVE Compared(_, _, _)
Compared(s, d, p) ==
    \/ p = << >>
    \/ IsDir(s, p) /\ IsDir(d, p) /\ Compared(s, d, Parent(p))

\* the actions the claimed rule gives for S and D: one per source-only
\* child, per dest-only child and per common file with differing bytes
ClaimedActions(s, d) ==
    {[kind |-> "copy",
      label |-> IF s[p].isdir THEN "directory" ELSE "file",
      path |-> p] :
        p \in {q \in DOMAIN s : q \notin DOMAIN d /\ Compared(s, d, Parent(q))}}
    \cup
    {[kind |-> "remove",
      label |-> IF d[p].isdir THEN "directory" ELSE "file",
      path |-> p] :
        p \in {q \in DOMAIN d : q \notin DOMAIN s /\ Compared(s, d, Parent(q))}}
    \cup
    {[kind |-> "update", label |-> "file", path |-> p] :
        p \in {q \in DOMAIN s \cap DOMAIN d :
                  /\ Compared(s, d, Parent(q))
                  /\ ~s[q].isdir /\ ~d[q].isdir
                  /\ s[q].data # d[q].data}}

\* the names at a compared level that are a file on one side and a
\* directory on the other
Mismatches(s, d) ==
    {q \in DOMAIN s \cap DOMAIN d :
        Compared(s, d, Parent(q)) /\ s[q].isdir # d[q].isdir}

\* the subtree at p is the same on both sides
SameSubtree(s, d, p) ==
    /\ Subtree(s, p) = Subtree(d, p)
    /\ \A q \in Subtree(s, p) : s[q] = d[q]

SameBytes(a, b) ==
    Len(a) = Len(b) /\ \A i \in 1..Len(a) : a[i] = b[i]

Rank(kind) == CASE kind = "copy" -> 1 [] kind = "update" -> 2 [] OTHER -> 3

\* supporting fact for C5: outside the names of DEFAULT_IGNORES a completed
\* run emits exactly the claimed actions, each once
CleanPath(p) == \A i \in 1..Len(p) : p[i] \notin DEFAULT_IGNORES
ActionSetOutsideIgnores ==
    status = "done" =>
        /\ ClassSet(log) =
               {a \in ClaimedActions(src0, dst0) : CleanPath(a.path)}
        /\ Len(log) = Cardinality(ClassSet(log))

\* supporting fact for C1 and C9: a completed non-dry run leaves the two
\* trees equal outside the subtrees of ignored names and type mismatches
RECURSIVE Skipped(_)
Skipped(p) ==
    /\ p # << >>
    /\ \/ p[Len(p)] \in DEFAULT_IGNORES
       \/ p \in Mismatches(src0, dst0)
       \/ Skipped(Parent(p))
ConvergenceOutsideSkipped ==
    (status = "done" /\ ~dry) =>
        \A p \in DOMAIN src \cup DOMAIN dst :
            ~Skipped(p) =>
                p \in DOMAIN src /\ p \in DOMAIN dst /\ src[p] = dst[p]

(***************************************************************************)
(* C1  Convergence: after a non-dry-run invocation that completes, the     *)
(* destination tree equals the source tree in structure and content.       *)
(* Stated as claimed; the code leaves type mismatches and the names of     *)
(* DEFAULT_IGNORES alone, so it does not hold.                             *)
(***************************************************************************)
C1_Convergence ==
    (status = "done" /\ ~dry) => dst = src

(***************************************************************************)
(* C2  Dry-run purity: during and after a dry run both trees are what      *)
(* they were when the invocation started.                                  *)
(***************************************************************************)
C2_DryRunPurity ==
    (status \in {"running", "done", "failed"} /\ dry) =>
        (dst = dst0 /\ src = src0)

\* a completed dry run that listed a copy, and a removal one level down
C2_Witness ==
    /\ status = "done" /\ dry /\ dst = dst0
    /\ \E i, j \in 1..Len(log) :
          /\ log[i].kind = "copy"
          /\ log[j].kind = "remove" /\ Len(log[j].path) = 2

(***************************************************************************)
(* C3  Idempotence: a non-dry-run invocation that follows a completed      *)
(* non-dry-run invocation emits no action and changes nothing.             *)
(***************************************************************************)
C3_Idempotence ==
    (prev.status = "done" /\ ~prev.dry /\ ~dry) =>
        (log = << >> /\ dst = dst0 /\ src = src0)

\* the second run completed after a first run that copied and updated
C3_Witness ==
    /\ prev.status = "done" /\ ~prev.dry /\ ~dry /\ status = "done"
    /\ \E i, j \in 1..Len(prev.log) :
          prev.log[i].kind = "copy" /\ prev.log[j].kind = "update"

(***************************************************************************)
(* C4  Argument validation: when the source or the destination is not a    *)
(* directory the invocation ends with the ValueError naming the source if  *)
(* the source is at fault and the destination otherwise, no level is       *)
(* listed, no line is printed and neither tree changes.                    *)
(***************************************************************************)
C4_ArgumentValidation ==
    (status # "setup" /\ (srcKind # "dir" \/ dstKind # "dir")) =>
        /\ status = "invalid"
        /\ err = (IF srcKind # "dir" THEN "source" ELSE "destination")
        /\ stack = << >> /\ log = << >>
        /\ dst = dst0 /\ src = src0

\* the destination is a file and the source has something to copy
C4_Witness ==
    /\ status = "invalid" /\ err = "destination"
    /\ srcKind = "dir" /\ dstKind = "file" /\ src # EmptyTree /\ log = << >>

(***************************************************************************)
(* C5  Minimal action set: a completed run emits exactly one action for    *)
(* each source-only child, each dest-only child and each common file with  *)
(* differing contents of every compared level, and nothing else.  Stated   *)
(* as claimed; a child named in DEFAULT_IGNORES gets no action.            *)
(***************************************************************************)
C5_MinimalActionSet ==
    status = "done" =>
        /\ ClassSet(log) = ClaimedActions(src0, dst0)
        /\ Len(log) = Cardinality(ClaimedActions(src0, dst0))

(***************************************************************************)
(* C6  Dry-run/real-run equivalence: a completed non-dry-run invocation    *)
(* that follows a completed dry run from the same trees emits the same     *)
(* sequence of actions (kind, label, path).                                *)
(***************************************************************************)
C6_DryRealEquivalence ==
    (status = "done" /\ ~dry /\ prev.status = "done" /\ prev.dry
        /\ prev.dst0 = dst0) =>
        Classes(log) = Classes(prev.log)

\* a real run after its preview, with an action below a copied level
C6_Witness ==
    /\ status = "done" /\ ~dry /\ prev.status = "done" /\ prev.dry
    /\ prev.dst0 = dst0
    /\ \E i, j \in 1..Len(log) :
          /\ i < j
          /\ Len(log[i].path) = 1
          /\ Len(log[j].path) = 2

(***************************************************************************)
(* C7  Per-entry failure is non-fatal: when the operation of one entry     *)
(* raises in a non-dry run, every other action of the run is still         *)
(* performed.  Stated as claimed; nothing catches the exception, so the    *)
(* run ends at the failing entry.                                          *)
(***************************************************************************)
C7_FailureNonFatal ==
    (failedAt # << >> /\ ~dry /\ stack = << >>) =>
        \A a \in PlanSet(src0, dst0, << >>) :
            a.path # failedAt[1] => a \in ClassSet(log)

(***************************************************************************)
(* C9  Type-mismatch resolution: a name that is a file on one side and a   *)
(* directory on the other at a compared level gets an action, and after a  *)
(* completed non-dry run the destination entry equals the source entry.    *)
(* Stated as claimed; dircmp files such a name under common_funny, which   *)
(* _sync_recursive never reads.                                            *)
(***************************************************************************)
C9_TypeMismatchResolved ==
    (status = "done" /\ ~dry) =>
        \A p \in Mismatches(src0, dst0) :
            /\ \E i \in 1..Len(log) : log[i].path = p
            /\ SameSubtree(src, dst, p)

C8_EqualityCorrect ==
    /\ [](eqpc = "done" =>
            /\ eqres = SameBytes(f1, f2)
            /\ eqres = _files_are_equal(f1, f2))
    /\ <>(eqpc = "done")

\* two files longer than a chunk that differ in their last byte only
C8_Witness ==
    /\ eqpc = "done" /\ eqres = FALSE
    /\ Len(f1) = Len(f2) /\ Len(f1) > chunk_size
    /\ f1[Len(f1)] # f2[Len(f2)]
    /\ SubSeq(f1, 1, Len(f1) - 1) = SubSeq(f2, 1, Len(f2) - 1)

====
